---------------------------- MODULE Spec2Model ----------------------------
(***************************************************************************)
(* Model of src/inverted_index.py: the inverted-index builder.             *)
(*                                                                         *)
(* Text is modelled as sequences of Unicode code points (naturals), so     *)
(* that Python's string comparison (code point by code point) and string   *)
(* lengths are what the code computes.  A file is the sequence of the      *)
(* strings written to it, one per write call / one per line read.          *)
(***************************************************************************)
EXTENDS Integers, Sequences, FiniteSets, Bags, TLC

(***************************************************************************)
(* Bounds of the model.                                                    *)
(***************************************************************************)
MaxLines == 3

MaxBatchDocs == 2

\* Code points used by the code itself.
NL == 10

TAB == 9

\* Lines of the input corpus, without their line terminator:
\*   "a a"     the same term twice in one line
\*   ""        an empty line (no token)
\*   "B'É,a"   upper case, an apostrophe, a non-ASCII letter (2 bytes in
\*             UTF-8), a delimiter, and a term of the first line
LineSet == { <<97, 32, 97>>, <<>>, <<66, 39, 201, 44, 97>> }

LinesPerDocChoices == {1, 2}

ThreadChoices == {1, 2}

\* Values of the expression shard_mb * 1024 * 1024 (line 74).  shard_mb is an
\* untyped parameter of merge_sorted_chunks; the command line passes an int, of
\* which only 0 gives a threshold a small index can reach.
ShardBytesChoices == {0, 14}

(***************************************************************************)
(* Strings.                                                                *)
(***************************************************************************)
\* Python's str < str: lexicographic by code point, a proper prefix is smaller.
RECURSIVE StrLess(_, _)
StrLess(a, b) ==
    IF b = <<>> THEN FALSE
    ELSE IF a = <<>> THEN TRUE
    ELSE IF Head(a) # Head(b) THEN Head(a) < Head(b)
    ELSE StrLess(Tail(a), Tail(b))

\* "".join(parts)
RECURSIVE Join(_)
Join(parts) ==
    IF parts = <<>> THEN <<>> ELSE Head(parts) \o Join(Tail(parts))

\* str(n) for an int n >= 0: its decimal digits.
RECURSIVE IntToStr(_)
IntToStr(n) ==
    IF n < 10 THEN <<48 + n>> ELSE IntToStr(n \div 10) \o <<48 + (n % 10)>>

\* int(s) for a string of decimal digits.
RECURSIVE StrToInt(_)
StrToInt(s) ==
    IF Len(s) = 1 THEN s[1] - 48
    ELSE 10 * StrToInt(SubSeq(s, 1, Len(s) - 1)) + (s[Len(s)] - 48)

\* s.rstrip("\n")
RECURSIVE RStripNL(_)
RStripNL(s) ==
    IF s # <<>> /\ s[Len(s)] = NL THEN RStripNL(SubSeq(s, 1, Len(s) - 1)) ELSE s

\* s.split("\t"): the fields between tabs (k + 1 fields for k tabs).
RECURSIVE SplitTabFrom(_, _, _)
SplitTabFrom(s, i, cur) ==
    IF i > Len(s) THEN <<cur>>
    ELSE IF s[i] = TAB THEN <<cur>> \o SplitTabFrom(s, i + 1, <<>>)
    ELSE SplitTabFrom(s, i + 1, Append(cur, s[i]))

SplitTab(s) == SplitTabFrom(s, 1, <<>>)

\* The number of bytes of s in UTF-8 (encoding="utf-8"), for code points < 2048.
RECURSIVE Utf8Len(_)
Utf8Len(s) ==
    IF s = <<>> THEN 0
    ELSE (IF Head(s) < 128 THEN 1 ELSE 2) + Utf8Len(Tail(s))

(***************************************************************************)
(* tokenize (lines 5-9).                                                   *)
(***************************************************************************)
\* The character class of TOKEN_RE: [A-Za-zÀ-ÖØ-öø-ÿ0-9']
IsTokenChar(c) ==
    \/ c \in 65..90
    \/ c \in 97..122
    \/ c \in 192..214
    \/ c \in 216..246
    \/ c \in 248..255
    \/ c \in 48..57
    \/ c = 39

\* str.lower() on the characters TOKEN_RE matches.
Lower(c) ==
    IF c \in 65..90 \/ c \in 192..214 \/ c \in 216..222 THEN c + 32 ELSE c

\* The maximal runs of token characters of s from position i on, lower-cased,
\* in order; cur is the run being read.
RECURSIVE TokenizeFrom(_, _, _)
TokenizeFrom(s, i, cur) ==
    IF i > Len(s) THEN (IF cur = <<>> THEN <<>> ELSE <<cur>>)
    ELSE IF IsTokenChar(s[i]) THEN TokenizeFrom(s, i + 1, Append(cur, Lower(s[i])))
    ELSE (IF cur = <<>> THEN <<>> ELSE <<cur>>) \o TokenizeFrom(s, i + 1, <<>>)

tokenize(s) == TokenizeFrom(s, 1, <<>>)

\* Counter(iterable): each element with the number of times it occurs.
Counter(toks) ==
    [t \in {toks[i] : i \in 1..Len(toks)} |->
        Cardinality({i \in 1..Len(toks) : toks[i] = t})]

(***************************************************************************)
(* map_count_docs (lines 11-23).  postings is the nested table             *)
(* term -> doc_id -> tf as a function on the (term, doc_id) keys present.  *)
(***************************************************************************)
\* postings[term][did] += tf for every (term, tf) of ctr (lines 20-21).
AddCounter(postings, ctr, did) ==
    [k \in DOMAIN postings \cup {<<t, did>> : t \in DOMAIN ctr} |->
        (IF k \in DOMAIN postings THEN postings[k] ELSE 0)
        + (IF k[2] = did /\ k[1] \in DOMAIN ctr THEN ctr[k[1]] ELSE 0)]

\* One iteration of the loop of lines 14-22 for the text txt and the ID did.
MapOneDoc(postings, txt, did) ==
    IF txt = <<>> THEN postings
    ELSE AddCounter(postings, Counter(tokenize(txt)), did)

\* Mutant of MapLoop: an empty document does not use up its ID.
RECURSIVE MapLoopSkipEmpty(_, _, _)
MapLoopSkipEmpty(postings, doc_texts, did) ==
    IF doc_texts = <<>> THEN postings
    ELSE MapLoopSkipEmpty(MapOneDoc(postings, Head(doc_texts), did), Tail(doc_texts),
                          IF Head(doc_texts) = <<>> THEN did ELSE did + 1)

RECURSIVE MapLoop(_, _, _)
MapLoop(postings, doc_texts, did) ==
    IF doc_texts = <<>> THEN postings
    ELSE MapLoop(MapOneDoc(postings, Head(doc_texts), did), Tail(doc_texts), did + 1)

\* Mutant of map_count_docs: only the documents with a token are counted.
map_count_docs_tokens_only(doc_texts, start_doc_id) ==
    [postings |-> MapLoop(<<>>, doc_texts, start_doc_id),
     ndocs |-> Cardinality({p \in DOMAIN doc_texts : tokenize(doc_texts[p]) # <<>>})]

map_count_docs(doc_texts, start_doc_id) ==
    [postings |-> MapLoop(<<>>, doc_texts, start_doc_id), ndocs |-> Len(doc_texts)]

(***************************************************************************)
(* spill_sorted_chunk (lines 25-35).                                       *)
(***************************************************************************)
\* Mutant of KeyLess: the doc_id is compared as text.
KeyLessDocAsText(a, b) ==
    \/ StrLess(a[1], b[1])
    \/ a[1] = b[1] /\ StrLess(IntToStr(a[2]), IntToStr(b[2]))

\* The sort key of line 30: (term, doc_id).
KeyLess(a, b) ==
    \/ StrLess(a[1], b[1])
    \/ a[1] = b[1] /\ a[2] < b[2]

\* rows.sort(key=...) for rows with pairwise different keys.
RECURSIVE SortRows(_)
SortRows(rows) ==
    IF rows = {} THEN <<>>
    ELSE LET m == CHOOSE r \in rows : \A o \in rows \ {r} : KeyLess(r, o)
         IN  <<m>> \o SortRows(rows \ {m})

\* f"{term}\t{doc_id}\t{tf}\n"
FormatRecord(term, doc_id, tf) ==
    term \o <<TAB>> \o IntToStr(doc_id) \o <<TAB>> \o IntToStr(tf) \o <<NL>>

\* The lines written to the run file, and their number.
spill_sorted_chunk(postings) ==
    LET rows == SortRows({<<k[1], k[2], postings[k]>> : k \in DOMAIN postings})
    IN  [lines |-> [i \in 1..Len(rows) |-> FormatRecord(rows[i][1], rows[i][2], rows[i][3])],
         nrows |-> Len(rows)]


(***************************************************************************)
(* merge_sorted_chunks: pure parts (lines 41-44, 54, 63, 66, 74).          *)
(***************************************************************************)
\* One value yielded by gen(i, fh) for a line of run i: (term, int(doc), int(tf), i).
ParseRecord(line, i) ==
    LET flds == SplitTab(RStripNL(line))
    IN  <<flds[1], StrToInt(flds[2]), StrToInt(flds[3]), i>>

\* Mutant of TupleLess: the frequency is left out of the comparison.
TupleLessNoTf(a, b) ==
    \/ StrLess(a[1], b[1])
    \/ a[1] = b[1] /\ a[2] < b[2]
    \/ a[1] = b[1] /\ a[2] = b[2] /\ a[4] < b[4]

\* Mutant of TupleLess: the run index is compared before the doc_id.
TupleLessSrcBeforeDoc(a, b) ==
    \/ StrLess(a[1], b[1])
    \/ a[1] = b[1] /\ a[4] < b[4]
    \/ a[1] = b[1] /\ a[4] = b[4] /\ a[2] < b[2]
    \/ a[1] = b[1] /\ a[4] = b[4] /\ a[2] = b[2] /\ a[3] < b[3]

\* Python's tuple order on the heap entries (term, doc, tf, src, it): the first
\* four fields decide, src being different for any two entries.
TupleLess(a, b) ==
    \/ StrLess(a[1], b[1])
    \/ a[1] = b[1] /\ a[2] < b[2]
    \/ a[1] = b[1] /\ a[2] = b[2] /\ a[3] < b[3]
    \/ a[1] = b[1] /\ a[2] = b[2] /\ a[3] = b[3] /\ a[4] < b[4]

\* Mutant of HeapMin: the largest entry is popped.
HeapMax(h) == CHOOSE e \in h : \A o \in h \ {e} : TupleLess(o, e)

\* heapq.heappop(heap): the smallest entry.  The heap is modelled as the set of
\* its entries.
HeapMin(h) == CHOOSE e \in h : \A o \in h \ {e} : TupleLess(e, o)

\* Mutant of RecordSize: one separator too many is counted.
RecordSizeOver(term, doc, tf) ==
    Len(term) + Len(IntToStr(doc)) + Len(IntToStr(tf)) + 4

\* The increment of written_in_shard (line 66).
RecordSize(term, doc, tf) ==
    Len(term) + Len(IntToStr(doc)) + Len(IntToStr(tf)) + 3

\* The test of line 74.
ShardFull(written, limit) == written >= limit

(***************************************************************************)
(* State.                                                                  *)
(***************************************************************************)
VARIABLES
    f,                \* the lines of the input file, with their terminators
    lines_per_doc,    \* parameters of build_inverted_index
    batch_docs,
    threads,
    shard_bytes,      \* shard_mb * 1024 * 1024
    pc,               \* position of the main thread
    fpos,             \* index of the next line of f to read
    line_buf,         \* lines of the document being assembled
    doc_buf,          \* documents of the batch being assembled
    next_doc_id,
    futures,          \* submitted batches: docs, start, state, result
    yielded,          \* futures as_completed has already yielded
    total_docs,
    chunk_paths,      \* the run files, by chunk index, in spill order
    chunk_idx,
    tmp_files,        \* contents of the files of tmp_dir, by chunk index
    tmp_dir,          \* whether the temporary directory exists
    heap,             \* entries (term, doc, tf, src)
    cursor,           \* per run (src): index of the next line gen will read
    out_files,        \* the shard files of outdir, in index order
    shard_idx,
    written_in_shard,
    records,
    emitted,          \* history: the heap entries popped so far, in order
    ret,              \* (rows, nshards) returned by merge_sorted_chunks
    summary,          \* the counts written to resumen.txt
    failure           \* the exception that ended the build, "none" if none

inputVars == <<f, lines_per_doc, batch_docs, threads, shard_bytes>>

segVars == <<fpos, line_buf, doc_buf, next_doc_id>>

spillVars == <<total_docs, chunk_paths, chunk_idx, tmp_files>>

mergeVars == <<heap, cursor, out_files, shard_idx, written_in_shard, records, emitted, ret>>

vars == <<inputVars, pc, segVars, futures, yielded, spillVars, tmp_dir, mergeVars, summary,
          failure>>

NoResult == [postings |-> <<>>, ndocs |-> 0]

NoSummary == [docs |-> -1, postings |-> -1, shards |-> -1]

\* The input files: up to MaxLines lines, each ended by a newline, except
\* that a non-empty last line may lack it.
FileOf(ls, nl) ==
    [i \in 1..Len(ls) |-> ls[i] \o (IF i = Len(ls) /\ ~nl THEN <<>> ELSE <<NL>>)]

InputFiles ==
    { FileOf(x[1], x[2]) :
        x \in { y \in (UNION { [1..n -> LineSet] : n \in 0..MaxLines }) \X BOOLEAN :
                  y[2] \/ (Len(y[1]) > 0 /\ y[1][Len(y[1])] # <<>>) } }

(***************************************************************************)
(* build_inverted_index: the segmenter (lines 101-125).                    *)
(***************************************************************************)
\* Mutant of flush_docs: every batch is numbered from 0.
flush_docs_from_zero(docs, start_id) ==
    [docs |-> docs, start |-> 0, state |-> "queued", result |-> NoResult]

\* flush_docs (lines 105-106): the future of map_count_docs(list(docs), start_id).
flush_docs(docs, start_id) ==
    [docs |-> docs, start |-> start_id, state |-> "queued", result |-> NoResult]

\* Mutant of DocComplete: a document is closed one line late.
DocCompleteLate(lb, n) == Len(lb) > n

\* The test of line 110.
DocComplete(lb, n) == Len(lb) >= n

\* The test of line 114.
BatchComplete(db, n) == Len(db) >= n

\* Mutant of AdvanceDocId: the ID advances by one per batch.
AdvanceDocIdByOne(id, db) == id + 1

\* next_doc_id += len(doc_buf) (lines 116, 124).
AdvanceDocId(id, db) == id + Len(db)

\* Mutant of TrailingDocs: the trailing partial group is dropped.
TrailingDocsDropped(lb, db) == db

\* Lines 119-121: a trailing partial group becomes a document.
TrailingDocs(lb, db) == IF lb # <<>> THEN Append(db, Join(lb)) ELSE db

Init ==
    /\ f \in InputFiles
    /\ lines_per_doc \in LinesPerDocChoices
    /\ batch_docs \in 1..MaxBatchDocs
    /\ threads \in ThreadChoices
    /\ shard_bytes \in ShardBytesChoices
    /\ pc = "segment"
    /\ fpos = 1
    /\ line_buf = <<>>
    /\ doc_buf = <<>>
    /\ next_doc_id = 0
    /\ futures = <<>>
    /\ yielded = {}
    /\ total_docs = 0
    /\ chunk_paths = <<>>
    /\ chunk_idx = 0
    /\ tmp_files = <<>>
    /\ tmp_dir = TRUE
    /\ heap = {}
    /\ cursor = <<>>
    /\ out_files = <<>>
    /\ shard_idx = 0
    /\ written_in_shard = 0
    /\ records = 0
    /\ emitted = <<>>
    /\ ret = <<0, 0>>
    /\ summary = NoSummary
    /\ failure = "none"

\* One iteration of the loop of lines 108-117.
ReadLine ==
    /\ pc = "segment"
    /\ fpos <= Len(f)
    /\ fpos' = fpos + 1
    /\ LET lb == Append(line_buf, f[fpos])
           db == Append(doc_buf, Join(lb))
       IN  IF DocComplete(lb, lines_per_doc)
           THEN /\ line_buf' = <<>>
                /\ IF BatchComplete(db, batch_docs)
                   THEN /\ futures' = Append(futures, flush_docs(db, next_doc_id))
                        /\ next_doc_id' = AdvanceDocId(next_doc_id, db)
                        /\ doc_buf' = <<>>
                   ELSE /\ doc_buf' = db
                        /\ UNCHANGED <<futures, next_doc_id>>
           ELSE /\ line_buf' = lb
                /\ UNCHANGED <<doc_buf, futures, next_doc_id>>
    /\ UNCHANGED <<inputVars, pc, yielded, spillVars, tmp_dir, mergeVars, summary, failure>>

\* The end of the input: lines 119-125.
EndOfInput ==
    /\ pc = "segment"
    /\ fpos > Len(f)
    /\ LET db == TrailingDocs(line_buf, doc_buf)
       IN  IF db # <<>>
           THEN /\ futures' = Append(futures, flush_docs(db, next_doc_id))
                /\ next_doc_id' = AdvanceDocId(next_doc_id, db)
           ELSE UNCHANGED <<futures, next_doc_id>>
    /\ line_buf' = <<>>
    /\ doc_buf' = <<>>
    /\ pc' = "collect"
    /\ UNCHANGED <<inputVars, fpos, yielded, spillVars, tmp_dir, mergeVars, summary, failure>>

(***************************************************************************)
(* The workers of the ThreadPoolExecutor (line 98).                        *)
(***************************************************************************)
Running == {i \in DOMAIN futures : futures[i].state = "running"}

Finished == {i \in DOMAIN futures : futures[i].state \in {"done", "failed"}}

\* A worker thread takes the oldest queued work item; at most `threads` run.
WorkerStart(i) ==
    /\ futures[i].state = "queued"
    /\ \A j \in 1..(i - 1) : futures[j].state # "queued"
    /\ Cardinality(Running) < threads
    /\ futures' = [futures EXCEPT ![i].state = "running"]
    /\ UNCHANGED <<inputVars, pc, segVars, yielded, spillVars, tmp_dir, mergeVars, summary, failure>>

\* map_count_docs returns: the future holds its result.
WorkerFinish(i) ==
    /\ futures[i].state = "running"
    /\ futures' = [futures EXCEPT ![i].state = "done",
                                  ![i].result = map_count_docs(futures[i].docs, futures[i].start)]
    /\ UNCHANGED <<inputVars, pc, segVars, yielded, spillVars, tmp_dir, mergeVars, summary, failure>>

\* map_count_docs raises (MemoryError, ...): the future holds the exception.
WorkerFail(i) ==
    /\ futures[i].state = "running"
    /\ futures' = [futures EXCEPT ![i].state = "failed"]
    /\ UNCHANGED <<inputVars, pc, segVars, yielded, spillVars, tmp_dir, mergeVars, summary, failure>>

(***************************************************************************)
(* build_inverted_index: collecting and spilling (lines 127-132).          *)
(***************************************************************************)
\* Mutant of OnWorkerError: the exception is swallowed and the loop goes on.
OnWorkerErrorIgnored == "collect"

\* fut.result() (line 128) re-raises the worker's exception, which nothing
\* catches: control leaves the with block.
OnWorkerError == "unwind"

\* One iteration of the loop of line 127 for a future that returned.
CollectResult(i) ==
    /\ pc = "collect"
    /\ i \in Finished \ yielded
    /\ futures[i].state = "done"
    /\ yielded' = yielded \cup {i}
    /\ total_docs' = total_docs + futures[i].result.ndocs
    /\ tmp_files' = [c \in DOMAIN tmp_files \cup {chunk_idx} |->
                        IF c = chunk_idx
                        THEN spill_sorted_chunk(futures[i].result.postings).lines
                        ELSE tmp_files[c]]
    /\ chunk_paths' = Append(chunk_paths, chunk_idx)
    /\ chunk_idx' = chunk_idx + 1
    /\ UNCHANGED <<inputVars, pc, segVars, futures, tmp_dir, mergeVars, summary, failure>>

\* One iteration of the loop of line 127 for a future that raised.
CollectError(i) ==
    /\ pc = "collect"
    /\ i \in Finished \ yielded
    /\ futures[i].state = "failed"
    /\ yielded' = yielded \cup {i}
    /\ pc' = OnWorkerError
    /\ failure' = "worker"
    /\ UNCHANGED <<inputVars, segVars, futures, spillVars, tmp_dir, mergeVars, summary>>

\* Mutant of AsCompletedExhausted: the loop may end before every future
\* has been yielded.
AsCompletedExhaustedEarly == TRUE

\* as_completed(futures) (line 127) ends when it has yielded every future.
AsCompletedExhausted == yielded = DOMAIN futures

\* as_completed is exhausted; the with block ends (every future is done).
CollectEnd ==
    /\ pc = "collect"
    /\ AsCompletedExhausted
    /\ pc' = "merge_open"
    /\ UNCHANGED <<inputVars, segVars, futures, yielded, spillVars, tmp_dir, mergeVars, summary, failure>>

\* The executor's __exit__ waits for every work item (shutdown(wait=True));
\* then the exception leaves build_inverted_index.
Unwind ==
    /\ pc = "unwind"
    /\ Finished = DOMAIN futures
    /\ pc' = "error"
    /\ UNCHANGED <<inputVars, segVars, futures, yielded, spillVars, tmp_dir, mergeVars, summary, failure>>

(***************************************************************************)
(* merge_sorted_chunks (lines 37-84).                                      *)
(***************************************************************************)
\* The lines of run src (files[src]).
RunLines(src) == tmp_files[chunk_paths[src + 1]]

\* Lines 38-59: the runs are opened, the heap gets each run's first record,
\* shard 0 is created.
MergeOpen ==
    /\ pc = "merge_open"
    /\ heap' = { ParseRecord(RunLines(src)[1], src) :
                   src \in {s \in 0..(Len(chunk_paths) - 1) : RunLines(s) # <<>>} }
    /\ cursor' = [src \in 0..(Len(chunk_paths) - 1) |->
                     IF RunLines(src) # <<>> THEN 2 ELSE 1]
    /\ out_files' = << <<>> >>
    /\ shard_idx' = 0
    /\ written_in_shard' = 0
    /\ records' = 0
    /\ emitted' = <<>>
    /\ pc' = "merge_loop"
    /\ UNCHANGED <<inputVars, segVars, futures, yielded, spillVars, tmp_dir, ret, summary, failure>>

\* Mutant of MergeStep: the run's next record is read but not pushed.
MergeStepNoPush ==
    /\ pc = "merge_loop"
    /\ heap # {}
    /\ LET e == HeapMin(heap)
           src == e[4]
           more == cursor[src] <= Len(RunLines(src))
           w == written_in_shard + RecordSize(e[1], e[2], e[3])
           out == [out_files EXCEPT ![shard_idx + 1] =
                      Append(@, FormatRecord(e[1], e[2], e[3]))]
       IN  /\ emitted' = Append(emitted, e)
           /\ heap' = heap \ {e}
           /\ cursor' = [cursor EXCEPT ![src] = IF more THEN @ + 1 ELSE @]
           /\ IF ShardFull(w, shard_bytes)
              THEN /\ out_files' = Append(out, <<>>)
                   /\ shard_idx' = shard_idx + 1
                   /\ written_in_shard' = 0
              ELSE /\ out_files' = out
                   /\ shard_idx' = shard_idx
                   /\ written_in_shard' = w
    /\ records' = records + 1
    /\ UNCHANGED <<inputVars, pc, segVars, futures, yielded, spillVars, tmp_dir, ret, summary, failure>>

\* One iteration of the loop of lines 62-79.
MergeStep ==
    /\ pc = "merge_loop"
    /\ heap # {}
    /\ LET e == HeapMin(heap)
           src == e[4]
           more == cursor[src] <= Len(RunLines(src))
           w == written_in_shard + RecordSize(e[1], e[2], e[3])
           out == [out_files EXCEPT ![shard_idx + 1] =
                      Append(@, FormatRecord(e[1], e[2], e[3]))]
       IN  /\ emitted' = Append(emitted, e)
           /\ heap' = (heap \ {e}) \cup
                        (IF more THEN {ParseRecord(RunLines(src)[cursor[src]], src)} ELSE {})
           /\ cursor' = [cursor EXCEPT ![src] = IF more THEN @ + 1 ELSE @]
           /\ IF ShardFull(w, shard_bytes)
              THEN /\ out_files' = Append(out, <<>>)
                   /\ shard_idx' = shard_idx + 1
                   /\ written_in_shard' = 0
              ELSE /\ out_files' = out
                   /\ shard_idx' = shard_idx
                   /\ written_in_shard' = w
    /\ records' = records + 1
    /\ UNCHANGED <<inputVars, pc, segVars, futures, yielded, spillVars, tmp_dir, ret, summary, failure>>

\* Mutant of ShardCount: the index of the last shard is returned.
ShardCountIsIndex(idx) == idx

\* The shard count returned at line 84.
ShardCount(idx) == idx + 1

\* Lines 81-84: the heap is empty; (records, shard_idx + 1) is returned.
MergeReturn ==
    /\ pc = "merge_loop"
    /\ heap = {}
    /\ ret' = <<records, ShardCount(shard_idx)>>
    /\ pc' = "cleanup"
    /\ UNCHANGED <<inputVars, segVars, futures, yielded, spillVars, tmp_dir,
                   heap, cursor, out_files, shard_idx, written_in_shard, records,
                   emitted, summary, failure>>

(***************************************************************************)
(* build_inverted_index: the end (lines 136-152).                          *)
(***************************************************************************)
\* Mutant of Cleanup: nothing is removed.
CleanupSkipped ==
    /\ pc = "cleanup"
    /\ pc' = "summary"
    /\ UNCHANGED <<inputVars, segVars, futures, yielded, spillVars, tmp_dir, mergeVars,
                   summary, failure>>

\* Lines 136-140: the run files and the temporary directory are removed.
Cleanup ==
    /\ pc = "cleanup"
    /\ LET left == DOMAIN tmp_files \ {chunk_paths[i] : i \in 1..Len(chunk_paths)}
       IN  /\ tmp_files' = [c \in left |-> tmp_files[c]]
           /\ tmp_dir' = (left # {})
    /\ pc' = "summary"
    /\ UNCHANGED <<inputVars, segVars, futures, yielded, total_docs, chunk_paths,
                   chunk_idx, mergeVars, summary, failure>>

\* Lines 145-152: resumen.txt.
WriteSummary ==
    /\ pc = "summary"
    /\ summary' = [docs |-> total_docs, postings |-> ret[1], shards |-> ret[2]]
    /\ pc' = "done"
    /\ UNCHANGED <<inputVars, segVars, futures, yielded, spillVars, tmp_dir, mergeVars, failure>>

Next ==
    \/ ReadLine
    \/ EndOfInput
    \/ \E i \in DOMAIN futures : WorkerStart(i)
    \/ \E i \in DOMAIN futures : WorkerFinish(i)
    \/ \E i \in DOMAIN futures : WorkerFail(i)
    \/ \E i \in DOMAIN futures : CollectResult(i)
    \/ \E i \in DOMAIN futures : CollectError(i)
    \/ CollectEnd
    \/ Unwind
    \/ MergeOpen
    \/ MergeStep
    \/ MergeReturn
    \/ Cleanup
    \/ WriteSummary

Spec == Init /\ [][Next]_vars

(***************************************************************************)
(* The build with I/O errors (disk full, permission denied): the writes of *)
(* lines 32-34, 64 and 146-151 may raise OSError.  Nothing in the module   *)
(* catches it.                                                             *)
(***************************************************************************)
\* spill_sorted_chunk raises while writing the run (lines 32-34), after line
\* 129: the run file is absent (k = -1) or holds the k records written so
\* far; line 131 is not reached.  The exception leaves the with block.
SpillFail(i) ==
    /\ pc = "collect"
    /\ i \in Finished \ yielded
    /\ futures[i].state = "done"
    /\ yielded' = yielded \cup {i}
    /\ total_docs' = total_docs + futures[i].result.ndocs
    /\ \E k \in -1..Len(spill_sorted_chunk(futures[i].result.postings).lines) :
          tmp_files' = [c \in DOMAIN tmp_files \cup (IF k >= 0 THEN {chunk_idx} ELSE {}) |->
                           IF c = chunk_idx
                           THEN SubSeq(spill_sorted_chunk(futures[i].result.postings).lines, 1, k)
                           ELSE tmp_files[c]]
    /\ pc' = "unwind"
    /\ failure' = "spill"
    /\ UNCHANGED <<inputVars, segVars, futures, chunk_paths, chunk_idx, tmp_dir, mergeVars,
                   summary>>

\* out.write raises (line 64) for the record just popped: the exception
\* leaves merge_sorted_chunks and build_inverted_index at line 134.
MergeFail ==
    /\ pc = "merge_loop"
    /\ heap # {}
    /\ heap' = heap \ {HeapMin(heap)}
    /\ pc' = "error"
    /\ failure' = "merge"
    /\ UNCHANGED <<inputVars, segVars, futures, yielded, spillVars, tmp_dir, cursor, out_files,
                   shard_idx, written_in_shard, records, emitted, ret, summary>>

\* Writing resumen.txt raises (lines 146-151): the exception leaves
\* build_inverted_index.
SummaryFail ==
    /\ pc = "summary"
    /\ pc' = "error"
    /\ failure' = "report"
    /\ UNCHANGED <<inputVars, segVars, futures, yielded, spillVars, tmp_dir, mergeVars, summary>>

NextIO ==
    \/ Next
    \/ \E i \in DOMAIN futures : SpillFail(i)
    \/ MergeFail
    \/ SummaryFail

SpecIO == Init /\ [][NextIO]_vars

(***************************************************************************)
(* merge_sorted_chunks called on its own, on any sorted runs.              *)
(***************************************************************************)
MaxRuns == 3

MaxRunLen == 2

\* Records of the runs: the same (term, doc_id) with two frequencies, and
\* doc_ids whose decimal strings order differently from the numbers.
RunRecordSet == { <<<<97>>, 2, 1>>, <<<<97>>, 2, 3>>, <<<<97>>, 10, 1>>, <<<<98>>, 2, 1>> }

\* The runs spill_sorted_chunk can write: strictly increasing in (term, doc_id).
SortedRuns ==
    { [i \in 1..Len(SortRows(rs)) |->
          FormatRecord(SortRows(rs)[i][1], SortRows(rs)[i][2], SortRows(rs)[i][3])] :
        rs \in { r \in SUBSET RunRecordSet :
                   /\ Cardinality(r) <= MaxRunLen
                   /\ \A a, b \in r : (a[1] = b[1] /\ a[2] = b[2]) => a = b } }

InitMerge ==
    /\ f = <<>>
    /\ lines_per_doc = 1
    /\ batch_docs = 1
    /\ threads = 1
    /\ shard_bytes \in ShardBytesChoices
    /\ pc = "merge_open"
    /\ fpos = 1
    /\ line_buf = <<>>
    /\ doc_buf = <<>>
    /\ next_doc_id = 0
    /\ futures = <<>>
    /\ yielded = {}
    /\ total_docs = 0
    /\ \E k \in 0..MaxRuns :
          /\ chunk_paths = [i \in 1..k |-> i - 1]
          /\ chunk_idx = k
          /\ tmp_files \in [0..(k - 1) -> SortedRuns]
    /\ tmp_dir = TRUE
    /\ heap = {}
    /\ cursor = <<>>
    /\ out_files = <<>>
    /\ shard_idx = 0
    /\ written_in_shard = 0
    /\ records = 0
    /\ emitted = <<>>
    /\ ret = <<0, 0>>
    /\ summary = NoSummary
    /\ failure = "none"

NextMerge ==
    \/ MergeOpen
    \/ MergeStep
    \/ MergeReturn

SpecMerge == InitMerge /\ [][NextMerge]_vars

\* The merge loop runs in the one thread that called merge_sorted_chunks:
\* it goes on as long as it can take a step.
SpecMergeLive == InitMerge /\ [][NextMerge]_vars /\ WF_vars(NextMerge)

(***************************************************************************)
(* map_count_docs called on its own, on any batch and starting ID.         *)
(***************************************************************************)
MaxMapDocs == 3

MaxStartId == 1

\* Document texts: "", "a a\n", "B,a\na", " \n" (no token).
DocTextSet == { <<>>, <<97, 32, 97, 10>>, <<66, 44, 97, 10, 97>>, <<32, 10>> }

InitMap ==
    /\ f = <<>>
    /\ lines_per_doc = 1
    /\ batch_docs = 1
    /\ threads = 1
    /\ shard_bytes = 0
    /\ pc = "map_call"
    /\ fpos = 1
    /\ line_buf = <<>>
    /\ doc_buf = <<>>
    /\ next_doc_id = 0
    /\ \E docs \in UNION { [1..n -> DocTextSet] : n \in 0..MaxMapDocs },
          s \in 0..MaxStartId :
          futures = << flush_docs(docs, s) >>
    /\ yielded = {}
    /\ total_docs = 0
    /\ chunk_paths = <<>>
    /\ chunk_idx = 0
    /\ tmp_files = <<>>
    /\ tmp_dir = TRUE
    /\ heap = {}
    /\ cursor = <<>>
    /\ out_files = <<>>
    /\ shard_idx = 0
    /\ written_in_shard = 0
    /\ records = 0
    /\ emitted = <<>>
    /\ ret = <<0, 0>>
    /\ summary = NoSummary
    /\ failure = "none"

NextMap ==
    \/ \E i \in DOMAIN futures : WorkerStart(i)
    \/ \E i \in DOMAIN futures : WorkerFinish(i)

SpecMap == InitMap /\ [][NextMap]_vars

(***************************************************************************)
(* map_count_docs and spill_sorted_chunk on one batch: the batch is mapped *)
(* and its table is spilled.  The starting IDs make the doc_ids cross from *)
(* one decimal digit to two.                                               *)
(***************************************************************************)
SpillStartChoices == {0, 9}

InitSpill ==
    /\ f = <<>>
    /\ lines_per_doc = 1
    /\ batch_docs = 1
    /\ threads = 1
    /\ shard_bytes = 0
    /\ pc = "collect"
    /\ fpos = 1
    /\ line_buf = <<>>
    /\ doc_buf = <<>>
    /\ next_doc_id = 0
    /\ \E docs \in UNION { [1..n -> DocTextSet] : n \in 0..MaxMapDocs },
          s \in SpillStartChoices :
          futures = << flush_docs(docs, s) >>
    /\ yielded = {}
    /\ total_docs = 0
    /\ chunk_paths = <<>>
    /\ chunk_idx = 0
    /\ tmp_files = <<>>
    /\ tmp_dir = TRUE
    /\ heap = {}
    /\ cursor = <<>>
    /\ out_files = <<>>
    /\ shard_idx = 0
    /\ written_in_shard = 0
    /\ records = 0
    /\ emitted = <<>>
    /\ ret = <<0, 0>>
    /\ summary = NoSummary
    /\ failure = "none"

NextSpill ==
    \/ \E i \in DOMAIN futures : WorkerStart(i)
    \/ \E i \in DOMAIN futures : WorkerFinish(i)
    \/ \E i \in DOMAIN futures : CollectResult(i)

SpecSpill == InitSpill /\ [][NextSpill]_vars

(***************************************************************************)
(* What the properties read: the index as a reader of the shard files      *)
(* sees it, and the reference segmentation and postings of the input.      *)
(***************************************************************************)
Range(sq) == {sq[i] : i \in DOMAIN sq}

Min(a, b) == IF a < b THEN a ELSE b

SeqToBag(sq) == [x \in Range(sq) |-> Cardinality({i \in DOMAIN sq : sq[i] = x})]

\* The records of all shards, in shard order and in file order.
ShardLines == Join(out_files)

ShardRecords ==
    [i \in 1..Len(ShardLines) |->
        LET r == ParseRecord(ShardLines[i], 0) IN <<r[1], r[2], r[3]>>]

\* (term, doc_id) <= (term, doc_id): terms as strings, doc_ids as integers.
KeyLeq(a, b) == StrLess(a[1], b[1]) \/ (a[1] = b[1] /\ a[2] <= b[2])

AfterMerge == {"cleanup", "summary", "done"}

\* The reference: document d is lines d*n+1 .. (d+1)*n of the input, joined.
RefDocCount == (Len(f) + lines_per_doc - 1) \div lines_per_doc

RefDoc(d) ==
    Join(SubSeq(f, d * lines_per_doc + 1, Min((d + 1) * lines_per_doc, Len(f))))

Occurrences(t, toks) == Cardinality({j \in DOMAIN toks : toks[j] = t})

RefTriples ==
    UNION { { <<t, d, Occurrences(t, tokenize(RefDoc(d)))>> : t \in Range(tokenize(RefDoc(d))) } :
            d \in 0..(RefDocCount - 1) }

\* The documents handed to the workers, in submission order.
SubmittedDocs == Join([i \in DOMAIN futures |-> futures[i].docs])

BatchRange(i) == futures[i].start .. (futures[i].start + Len(futures[i].docs) - 1)

RECURSIVE DocsBefore(_)
DocsBefore(i) == IF i <= 1 THEN 0 ELSE DocsBefore(i - 1) + Len(futures[i - 1].docs)

(***************************************************************************)
(* C1: the records of the shards, read in shard order and in file order,   *)
(* are non-decreasing in (term, doc_id), across shard boundaries too.      *)
(***************************************************************************)
C1_GloballySorted ==
    LET recs == ShardRecords
    IN  \A i \in 1..(Len(recs) - 1) : KeyLeq(recs[i], recs[i + 1])

\* A finished build of several runs whose records span several shards.
C1_Witness ==
    /\ pc = "done"
    /\ Len(chunk_paths) >= 2
    /\ Len(ShardRecords) >= 3
    /\ \E k \in 1..(Len(out_files) - 1) : out_files[k] # <<>> /\ out_files[k + 1] # <<>>
    /\ \E i \in DOMAIN futures : futures[i].start > 0 /\ futures[i].result.postings # <<>>

(***************************************************************************)
(* C2: once the merge has returned, the multiset of (term, doc_id, tf) in  *)
(* the shards is the multiset of the reference: each document tokenized on *)
(* its own, its term frequencies counted.                                  *)
(***************************************************************************)
C2_Complete ==
    pc \in AfterMerge => SeqToBag(ShardRecords) = SetToBag(RefTriples)

\* A finished build with two runs or more, two shards or more, and a term
\* that occurs twice in a document.
C2_Witness ==
    /\ pc = "done"
    /\ Len(chunk_paths) >= 2
    /\ Len(out_files) >= 2
    /\ \E r \in RefTriples : r[3] >= 2
    /\ \E r \in RefTriples : r[2] >= 1

(***************************************************************************)
(* C3: each batch starts at the number of documents of the earlier         *)
(* batches; the ID ranges of the batches are pairwise disjoint and, once   *)
(* the input is read, their union is 0..D-1.                               *)
(***************************************************************************)
C3_DisjointTotalRanges ==
    /\ \A i \in DOMAIN futures : futures[i].start = DocsBefore(i)
    /\ \A i, j \in DOMAIN futures : i # j => BatchRange(i) \cap BatchRange(j) = {}
    /\ pc # "segment" =>
          UNION {BatchRange(i) : i \in DOMAIN futures} = 0..(RefDocCount - 1)

\* Two batches, the first of more than one document.
C3_Witness ==
    /\ pc = "collect"
    /\ Len(futures) >= 2
    /\ Len(futures[1].docs) >= 2
    /\ futures[2].start = 2

(***************************************************************************)
(* C4: no (term, doc_id) pair occurs in two records of the shards.         *)
(***************************************************************************)
C4_UniquePairs ==
    LET recs == ShardRecords
    IN  \A i, j \in DOMAIN recs :
            (recs[i][1] = recs[j][1] /\ recs[i][2] = recs[j][2]) => i = j

\* A finished build in which one term occurs in documents of two batches.
C4_Witness ==
    /\ pc = "done"
    /\ \E i, j \in DOMAIN emitted :
          /\ emitted[i][1] = emitted[j][1]
          /\ emitted[i][4] # emitted[j][4]

(***************************************************************************)
(* C5: the documents are the groups of lines_per_doc consecutive lines,    *)
(* the last group being the 1..lines_per_doc lines that remain; there are  *)
(* ceil(L / lines_per_doc) of them, the document with ID d is group d, and *)
(* joined in ID order they are the input.                                  *)
(***************************************************************************)
C5_Segmentation ==
    /\ \A i \in DOMAIN futures : \A p \in DOMAIN futures[i].docs :
          /\ futures[i].start + p - 1 < RefDocCount
          /\ futures[i].docs[p] = RefDoc(futures[i].start + p - 1)
    /\ pc # "segment" =>
          /\ Len(SubmittedDocs) = RefDocCount
          /\ \A d \in 0..(RefDocCount - 1) : SubmittedDocs[d + 1] = RefDoc(d)
          /\ Join(SubmittedDocs) = Join(f)

\* Three lines in documents of two lines: a full group and a trailing one.
C5_Witness ==
    /\ pc = "collect"
    /\ Len(f) = 3
    /\ lines_per_doc = 2
    /\ Len(SubmittedDocs) = 2
    /\ SubmittedDocs[2] = f[3]

(***************************************************************************)
(* C6: map_count_docs on a batch with starting ID s returns the table in   *)
(* which (term, s+k) has the value n exactly when document k of the batch  *)
(* holds the term n > 0 times; an empty document uses up its ID.           *)
(***************************************************************************)
C6_MapTable ==
    \A i \in DOMAIN futures :
        futures[i].state = "done" =>
            LET docs == futures[i].docs
                s == futures[i].start
                tbl == futures[i].result.postings
                terms == {key[1] : key \in DOMAIN tbl}
                           \cup UNION {Range(tokenize(docs[p])) : p \in DOMAIN docs}
            IN  /\ futures[i].result.ndocs = Len(docs)
                /\ \A key \in DOMAIN tbl : key[2] \in s..(s + Len(docs) - 1)
                /\ \A k \in 0..(Len(docs) - 1) : \A t \in terms :
                      LET n == Occurrences(t, tokenize(docs[k + 1]))
                      IN  IF n > 0
                          THEN <<t, s + k>> \in DOMAIN tbl /\ tbl[<<t, s + k>>] = n
                          ELSE <<t, s + k>> \notin DOMAIN tbl

\* A batch whose first document is empty, followed by a document without
\* tokens and one with a term twice.
C6_Witness ==
    /\ pc = "map_call"
    /\ futures[1].state = "done"
    /\ futures[1].start = 1
    /\ futures[1].docs = << <<>>, <<32, 10>>, <<97, 32, 97, 10>> >>
    /\ futures[1].result.postings = (<< <<97>>, 3 >> :> 2)

(***************************************************************************)
(* C7: with a threshold below the size of every record, each record is in  *)
(* a shard of its own and the shard count returned is the record count.    *)
(***************************************************************************)
C7_ShardCountIsRecordCount ==
    (/\ pc \in AfterMerge
     /\ ret[1] >= 1
     /\ \A ln \in Range(ShardLines) : shard_bytes < Utf8Len(ln))
        => /\ ret[2] = ret[1]
           /\ \A k \in DOMAIN out_files : Len(out_files[k]) = 1

(***************************************************************************)
(* C8: every shard but the last has at least the threshold's size in       *)
(* bytes, and what the shards hold are whole records: each written string  *)
(* is one record with its newline, and there are as many as records.       *)
(***************************************************************************)
C8_ShardBound ==
    /\ \A k \in 1..(Len(out_files) - 1) : Utf8Len(Join(out_files[k])) >= shard_bytes
    /\ pc \in {"merge_loop"} \cup AfterMerge =>
          LET ls == ShardLines
          IN  /\ Len(ls) = records
              /\ \A i \in DOMAIN ls :
                    /\ Len(SplitTab(ls[i])) = 3
                    /\ ls[i][Len(ls[i])] = NL
                    /\ Cardinality({c \in DOMAIN ls[i] : ls[i][c] = NL}) = 1
                    /\ ls[i] = FormatRecord(emitted[i][1], emitted[i][2], emitted[i][3])

\* A closed shard of two records or more under a positive threshold,
\* followed by another record.
C8_Witness ==
    /\ pc = "done"
    /\ shard_bytes > 0
    /\ Len(out_files) >= 2
    /\ Len(out_files[1]) >= 2
    /\ out_files[2] # <<>>

(***************************************************************************)
(* C9, as stated: of two records equal on (term, doc_id) that come from    *)
(* different runs, the one of the run with the smaller index is emitted    *)
(* first, whatever the frequencies.                                        *)
(***************************************************************************)
C9_TieInRunIndexOrder ==
    \A i, j \in DOMAIN emitted :
        (i < j /\ emitted[i][1] = emitted[j][1] /\ emitted[i][2] = emitted[j][2])
            => emitted[i][4] < emitted[j][4]

(***************************************************************************)
(* C9, amended: records equal on (term, doc_id) are all emitted, none      *)
(* merged, in the order of their term_frequency, and in run-index order    *)
(* when the frequencies are equal too.                                     *)
(***************************************************************************)
C9_TieInFrequencyThenRunOrder ==
    /\ \A i, j \in DOMAIN emitted :
          (i < j /\ emitted[i][1] = emitted[j][1] /\ emitted[i][2] = emitted[j][2])
              => \/ emitted[i][3] < emitted[j][3]
                 \/ emitted[i][3] = emitted[j][3] /\ emitted[i][4] < emitted[j][4]
    /\ pc \in AfterMerge =>
          SeqToBag(ShardLines) =
              SeqToBag(Join([i \in DOMAIN chunk_paths |-> tmp_files[chunk_paths[i]]]))

\* Two runs with the same (term, doc_id): the record of the later run has
\* the smaller frequency and was emitted first.
C9_Witness ==
    /\ pc = "cleanup"
    /\ \E i, j \in DOMAIN emitted :
          /\ i < j
          /\ emitted[i][1] = emitted[j][1]
          /\ emitted[i][2] = emitted[j][2]
          /\ emitted[i][3] < emitted[j][3]
          /\ emitted[i][4] > emitted[j][4]
    /\ \E i, j \in DOMAIN emitted :
          /\ i < j
          /\ emitted[i][1] = emitted[j][1]
          /\ emitted[i][2] = emitted[j][2]
          /\ emitted[i][3] = emitted[j][3]

(***************************************************************************)
(* C10: once a map worker has failed, the merge is never entered and no    *)
(* shard file exists; when the failure has been seen, the build is on its  *)
(* way out with the error.                                                 *)
(***************************************************************************)
C10_NoIndexAfterWorkerFailure ==
    (\E i \in DOMAIN futures : futures[i].state = "failed") =>
        /\ pc \in {"segment", "collect", "unwind", "error"}
        /\ out_files = <<>>
        /\ (\E i \in yielded : futures[i].state = "failed") => pc \in {"unwind", "error"}

\* The build has ended with the error of a worker, after another batch had
\* been spilled.
C10_Witness ==
    /\ pc = "error"
    /\ \E i \in yielded : futures[i].state = "failed"
    /\ chunk_paths # <<>>

(***************************************************************************)
(* C11: when the build has ended with the error of a worker after batches  *)
(* had been spilled, no run file and no temporary directory is left.       *)
(***************************************************************************)
C11_TempRemovedOnWorkerError ==
    (pc = "error" /\ failure = "worker" /\ chunk_paths # <<>>) =>
        /\ \A i \in DOMAIN chunk_paths : chunk_paths[i] \notin DOMAIN tmp_files
        /\ ~tmp_dir

(***************************************************************************)
(* C12: when the build has ended with an I/O error of the spill or of the  *)
(* merge, no run file, no temporary directory and no shard file is left.   *)
(***************************************************************************)
C12_NothingLeftAfterIOError ==
    (pc = "error" /\ failure \in {"spill", "merge"}) =>
        /\ tmp_files = <<>>
        /\ ~tmp_dir
        /\ out_files = <<>>

(***************************************************************************)
(* C13: when writing the summary fails, the build does not end in the      *)
(* error state, and the shards hold the complete index.                    *)
(***************************************************************************)
C13_ReportFailureNotFatal ==
    failure = "report" =>
        /\ pc # "error"
        /\ SeqToBag(ShardRecords) = SetToBag(RefTriples)

(***************************************************************************)
(* C14: when merge_sorted_chunks is about to open the runs, and from then  *)
(* on, every submitted batch has returned and has been collected, no       *)
(* worker is queued or running, and every batch has its run file, written  *)
(* in full.                                                                *)
(***************************************************************************)
C14_MergeAfterAllSpills ==
    pc \in {"merge_open", "merge_loop"} \cup AfterMerge =>
        /\ \A i \in DOMAIN futures : futures[i].state = "done"
        /\ yielded = DOMAIN futures
        /\ Len(chunk_paths) = Len(futures)
        /\ pc \in {"merge_open", "merge_loop", "cleanup"} =>
              /\ \A k \in DOMAIN chunk_paths : chunk_paths[k] \in DOMAIN tmp_files
              /\ SeqToBag([k \in DOMAIN chunk_paths |-> tmp_files[chunk_paths[k]]])
                   = SeqToBag([i \in DOMAIN futures |->
                                 spill_sorted_chunk(futures[i].result.postings).lines])

\* The merge is about to start on the runs of three batches.
C14_Witness ==
    /\ pc = "merge_open"
    /\ Len(futures) >= 3
    /\ \A k \in DOMAIN chunk_paths : tmp_files[chunk_paths[k]] # <<>>

C16_EmptyIndex ==
    (/\ pc \in AfterMerge
     /\ \A k \in DOMAIN chunk_paths : tmp_files[chunk_paths[k]] = <<>>)
        => /\ out_files = << <<>> >>
           /\ ret = <<0, 1>>

\* merge_sorted_chunks has returned for two empty runs.
C16_Witness ==
    /\ pc = "cleanup"
    /\ Len(chunk_paths) = 2
    /\ \A k \in DOMAIN chunk_paths : tmp_files[chunk_paths[k]] = <<>>
    /\ out_files = << <<>> >>

(***************************************************************************)
(* C17: after a successful build the summary holds the number of           *)
(* documents the segmenter made (the IDs assigned, token-less documents    *)
(* included), the number of records in the shards, which is the sum of     *)
(* the record counts of the runs, and the number of shard files.           *)
(***************************************************************************)
RECURSIVE SumRunRows(_)
SumRunRows(i) ==
    IF i = 0 THEN 0
    ELSE SumRunRows(i - 1) + spill_sorted_chunk(futures[i].result.postings).nrows

C17_SummaryCounts ==
    pc = "done" =>
        /\ summary.docs = RefDocCount
        /\ summary.docs = next_doc_id
        /\ summary.docs = Len(SubmittedDocs)
        /\ summary.postings = Len(ShardLines)
        /\ summary.postings = SumRunRows(Len(futures))
        /\ summary.shards = Len(out_files)

\* A finished build of several batches with a token-less document and
\* several shards.
C17_Witness ==
    /\ pc = "done"
    /\ Len(futures) >= 2
    /\ \E p \in DOMAIN SubmittedDocs : tokenize(SubmittedDocs[p]) = <<>>
    /\ summary.docs = 3
    /\ summary.postings >= 2
    /\ summary.shards >= 2

(***************************************************************************)
(* C18: the shard files are a function of the input and the configuration  *)
(* alone: whatever the order in which the batches complete and are         *)
(* spilled, they are the reference postings in (term, doc_id) order, cut   *)
(* after each record that brings a shard to the threshold.                 *)
(***************************************************************************)
RECURSIVE RefShardsFrom(_, _, _, _)
RefShardsFrom(recs, closed, cur, size) ==
    IF recs = <<>> THEN Append(closed, cur)
    ELSE LET ln == FormatRecord(Head(recs)[1], Head(recs)[2], Head(recs)[3])
         IN  IF size + Len(ln) >= shard_bytes
             THEN RefShardsFrom(Tail(recs), Append(closed, Append(cur, ln)), <<>>, 0)
             ELSE RefShardsFrom(Tail(recs), closed, Append(cur, ln), size + Len(ln))

RECURSIVE RefSorted(_)
RefSorted(rs) ==
    IF rs = {} THEN <<>>
    ELSE LET m == CHOOSE r \in rs : \A o \in rs : KeyLeq(r, o)
         IN  <<m>> \o RefSorted(rs \ {m})

C18_OrderIndependent ==
    pc \in AfterMerge => out_files = RefShardsFrom(RefSorted(RefTriples), <<>>, <<>>, 0)

\* The batches were spilled out of submission order: run 0 holds a later
\* document than run 1; the index has several shards.
C18_Witness ==
    /\ pc = "done"
    /\ \E n, m \in DOMAIN emitted :
          /\ emitted[n][4] < emitted[m][4]
          /\ emitted[n][2] > emitted[m][2]
          /\ emitted[n][1] = emitted[m][1]
    /\ Len(out_files) >= 2

(***************************************************************************)
(* C19: a run written by spill_sorted_chunk is strictly increasing in      *)
(* (term, doc_id), doc_ids compared as integers, and holds as many records *)
(* as the batch table has (term, doc_id) entries, which is the count       *)
(* returned.                                                               *)
(***************************************************************************)
C19_RunStrictlySorted ==
    /\ \A c \in DOMAIN tmp_files :
          LET run == [n \in DOMAIN tmp_files[c] |-> ParseRecord(tmp_files[c][n], 0)]
          IN  \A n \in 1..(Len(run) - 1) :
                  /\ KeyLeq(run[n], run[n + 1])
                  /\ ~(run[n][1] = run[n + 1][1] /\ run[n][2] = run[n + 1][2])
                  /\ run[n][1] = run[n + 1][1] => run[n][2] < run[n + 1][2]
    /\ \A i \in yielded :
          LET tbl == futures[i].result.postings
          IN  /\ spill_sorted_chunk(tbl).nrows = Cardinality(DOMAIN tbl)
              /\ \E k \in DOMAIN chunk_paths :
                    /\ Len(tmp_files[chunk_paths[k]]) = Cardinality(DOMAIN tbl)
                    /\ \A key \in DOMAIN tbl :
                          FormatRecord(key[1], key[2], tbl[key]) \in Range(tmp_files[chunk_paths[k]])

\* The run of a batch in which one term is in documents 9 and 10.
C19_Witness ==
    /\ yielded = {1}
    /\ futures[1].start = 9
    /\ Len(tmp_files[0]) >= 3
    /\ FormatRecord(<<97>>, 9, 2) \in Range(tmp_files[0])
    /\ FormatRecord(<<97>>, 10, 2) \in Range(tmp_files[0])

(***************************************************************************)
(* C20: in the merge loop the heap holds exactly the next unread record of *)
(* every run that still has one, and nothing else; a pop emits one record  *)
(* and advances that record's run only; the records still to emit go down  *)
(* by one per iteration, the loop ends exactly when none is left, and it   *)
(* does end, with as many records emitted as the runs hold.                *)
(***************************************************************************)
EmittedFrom(src) == Cardinality({n \in DOMAIN emitted : emitted[n][4] = src})

RECURSIVE RunRecordsUpTo(_)
RunRecordsUpTo(k) == IF k = 0 THEN 0 ELSE RunRecordsUpTo(k - 1) + Len(RunLines(k - 1))

Remaining == RunRecordsUpTo(Len(chunk_paths)) - Len(emitted)

C20_HeapHeads ==
    pc = "merge_loop" =>
        /\ \A src \in 0..(Len(chunk_paths) - 1) :
              LET mine == {e \in heap : e[4] = src}
              IN  IF EmittedFrom(src) < Len(RunLines(src))
                  THEN mine = {ParseRecord(RunLines(src)[EmittedFrom(src) + 1], src)}
                  ELSE mine = {}
        /\ \A e \in heap : e[4] \in 0..(Len(chunk_paths) - 1)
        /\ (heap = {}) <=> (Remaining = 0)
        /\ Remaining >= 0

C20_MergeTerminates ==
    /\ []C20_HeapHeads
    /\ [][ /\ (pc = "merge_loop" /\ pc' = "merge_loop") =>
                /\ Len(emitted') = Len(emitted) + 1
                /\ SubSeq(emitted', 1, Len(emitted)) = emitted
                /\ emitted'[Len(emitted')] \in heap
                /\ Remaining' = Remaining - 1
                /\ \A src \in DOMAIN cursor :
                      src # emitted'[Len(emitted')][4] =>
                          /\ cursor'[src] = cursor[src]
                          /\ {e \in heap' : e[4] = src} = {e \in heap : e[4] = src}
           /\ (pc = "merge_loop" /\ pc' # "merge_loop") =>
                /\ heap = {}
                /\ \A src \in DOMAIN cursor : cursor[src] > Len(RunLines(src))
                /\ ret'[1] = RunRecordsUpTo(Len(chunk_paths))
                /\ ret'[1] = Len(emitted)
       ]_vars
    /\ <>(pc = "cleanup")

\* The merge has returned for three runs that held four records or more,
\* one run being longer than another.
C20_Witness ==
    /\ pc = "cleanup"
    /\ Len(chunk_paths) = 3
    /\ ret[1] >= 4
    /\ ret[1] = Len(emitted)
    /\ \E a, b \in 0..2 : EmittedFrom(a) = 2 /\ EmittedFrom(b) = 1

=============================================================================
